---- MODULE Spec2Model ----
(***************************************************************************)
(* Wood Couture AI Market Scout (src/app.py): the fetcher, the site        *)
(* scraper, the company resolver, the summarizer and the multi-term        *)
(* discovery run (general_search).                                         *)
(*                                                                         *)
(* Text is kept as TLA+ strings; TLC evaluates Len, SubSeq, Tail and \o on *)
(* them, so Python's `in`, str.lower() and f-strings are computed, not     *)
(* assumed.  An HTML document is the record of what the parsers of         *)
(* src/app.py read from it (markup, readable text, e-mail addresses, phone *)
(* numbers, anchors).  Every network exchange is an input: its outcome is  *)
(* drawn from a small set when the call is made.                           *)
(***************************************************************************)
EXTENDS Integers, Sequences, FiniteSets, TLC

(***************************************************************************)
(* Bounds of the model.                                                    *)
(***************************************************************************)
MaxRetries == 3
MaxAnchors == 2
MaxHits == 2
MaxTerms == 2
MaxResultsCap == 2
MaxClicks == 2

(***************************************************************************)
(* Python values.                                                          *)
(***************************************************************************)
None == "<None>"

Truthy(x) == x # None /\ x # ""

\* pattern in text  (str.__contains__), case-sensitive
Contains(text, pattern) ==
    \E n \in 1..(Len(text) - Len(pattern) + 1) :
        SubSeq(text, n, n + Len(pattern) - 1) = pattern

UpperLetters == "ABCDEFGHIJKLMNOPQRSTUVWXYZ"
LowerLetters == "abcdefghijklmnopqrstuvwxyz"

\* the lower-case letter of each upper-case letter
LowerMap ==
    [c \in {SubSeq(UpperLetters, n, n) : n \in 1..26} |->
        LET n == CHOOSE m \in 1..26 : SubSeq(UpperLetters, m, m) = c
        IN  SubSeq(LowerLetters, n, n)]

LowerChar(c) == IF c \in DOMAIN LowerMap THEN LowerMap[c] ELSE c

\* str.lower()
RECURSIVE Lower(_)
Lower(text) ==
    IF text = "" THEN ""
    ELSE LowerChar(SubSeq(text, 1, 1)) \o Lower(Tail(text))

\* the sequences of length 0..n over S
SeqsUpTo(S, n) == UNION {[1..m -> S] : m \in 0..n}

\* list(a_set): a Python set of strings iterates in hash order, and string
\* hashes are salted per process, so every enumeration can come out.
ListOfSet(S) ==
    {l \in [1..Cardinality(S) -> S] : \A a, b \in 1..Cardinality(S) : l[a] = l[b] => a = b}

(***************************************************************************)
(* HTML documents and the outcomes of one HTTP GET.                        *)
(***************************************************************************)
Html(markup, text, emails, phones, anchors) ==
    [markup |-> markup, text |-> text, emails |-> emails, phones |-> phones,
     anchors |-> anchors]

\* the response body "" : no markup at all
EmptyHtml == Html("", "", {}, {}, <<>>)

Response(status, html) == [kind |-> "response", status_code |-> status, text |-> html]
RequestException == [kind |-> "RequestException"]
OtherException == [kind |-> "OtherException"]

ErrorPage == Html("<h1>error</h1>", "error", {}, {}, <<>>)
PlainPage == Html("<p>wood</p>", "wood", {}, {}, <<>>)

\* what one session.get can do in the fetcher's own specification
GetOutcomes ==
    {Response(200, PlainPage), Response(200, EmptyHtml), Response(404, ErrorPage),
     Response(500, EmptyHtml), RequestException, OtherException}

(***************************************************************************)
(* get_website_content: `net` is what the successive session.get calls do. *)
(* The result records the returned text, whether an exception left the     *)
(* function, and how many GETs were sent.                                  *)
(***************************************************************************)
RECURSIVE FetchLoopNoStatusCheck(_, _, _)
FetchLoopNoStatusCheck(net, attempt, retries) ==
    IF attempt > retries
    THEN [text |-> EmptyHtml, raised |-> FALSE, gets |-> retries]
    ELSE LET outcome == net[attempt] IN
         IF outcome.kind = "response"
         THEN [text |-> outcome.text, raised |-> FALSE, gets |-> attempt]
         ELSE IF outcome.kind = "RequestException"
              THEN FetchLoopNoStatusCheck(net, attempt + 1, retries)
              ELSE [text |-> EmptyHtml, raised |-> TRUE, gets |-> attempt]

RECURSIVE FetchLoop(_, _, _)
FetchLoop(net, attempt, retries) ==
    IF attempt > retries
    THEN [text |-> EmptyHtml, raised |-> FALSE, gets |-> retries]
    ELSE LET outcome == net[attempt] IN
         IF outcome.kind = "response"
         THEN IF outcome.status_code = 200
              THEN [text |-> outcome.text, raised |-> FALSE, gets |-> attempt]
              ELSE FetchLoop(net, attempt + 1, retries)
         ELSE IF outcome.kind = "RequestException"
              THEN FetchLoop(net, attempt + 1, retries)
              ELSE [text |-> EmptyHtml, raised |-> TRUE, gets |-> attempt]

get_website_content(net, retries) == FetchLoop(net, 1, retries)

DefaultRetries == 3

(***************************************************************************)
(* The parsers, read off the document record.                              *)
(***************************************************************************)
extract_main_content(html) == html.text

\* the two collections are built as Python sets (unordered)
extract_contact_details(html) == [emails |-> html.emails, phones |-> html.phones]

\* str.strip() for blanks
RECURSIVE Strip(_)
Strip(text) ==
    IF text = "" THEN ""
    ELSE IF SubSeq(text, 1, 1) = " " THEN Strip(Tail(text))
    ELSE IF SubSeq(text, Len(text), Len(text)) = " "
         THEN Strip(SubSeq(text, 1, Len(text) - 1))
         ELSE text

\* position of the first "/" of text at or after n, or 0
RECURSIVE SlashFrom(_, _)
SlashFrom(text, n) ==
    IF n > Len(text) THEN 0
    ELSE IF SubSeq(text, n, n) = "/" THEN n ELSE SlashFrom(text, n + 1)

\* position of the last "/" of text at or before n, or 0
RECURSIVE SlashBefore(_, _)
SlashBefore(text, n) ==
    IF n < 1 THEN 0
    ELSE IF SubSeq(text, n, n) = "/" THEN n ELSE SlashBefore(text, n - 1)

\* "scheme://host" of an absolute URL
Origin(url) ==
    LET s == CHOOSE n \in 1..(Len(url) - 2) : SubSeq(url, n, n + 2) = "://"
        p == SlashFrom(url, s + 3)
    IN  IF p = 0 THEN url ELSE SubSeq(url, 1, p - 1)

\* urllib.parse.urljoin for an absolute base and an href that is empty,
\* absolute, rooted ("/x") or relative ("x")
urljoin(base_url, href) ==
    IF href = "" THEN base_url
    ELSE IF Contains(href, "://") THEN href
    ELSE IF SubSeq(href, 1, 1) = "/" THEN Origin(base_url) \o href
    ELSE LET o == Origin(base_url)
             d == SlashBefore(base_url, Len(base_url))
         IN  IF d <= Len(o) THEN o \o "/" \o href
             ELSE SubSeq(base_url, 1, d) \o href

keywords ==
    <<"about", "products", "contact", "contact us", "services", "portfolio",
      "get in touch">>

\* a dict is kept as the sequence of its items in insertion order
Keys(dict) == {dict[n].key : n \in 1..Len(dict)}

\* find_relevant_links: anchors in document order, keywords in list order;
\* `a` and `k` are the positions of the two loops
RECURSIVE FindLinks(_, _, _, _, _)
FindLinks(anchors, base_url, a, k, links) ==
    IF a > Len(anchors) THEN links
    ELSE IF k > Len(keywords) THEN FindLinks(anchors, base_url, a + 1, 1, links)
    ELSE LET link_text == Lower(Strip(anchors[a].text))
             kw == keywords[k]
         IN  IF Contains(link_text, kw) /\ kw \notin Keys(links)
             THEN FindLinks(anchors, base_url, a, k + 1,
                      Append(links, [key |-> kw, link |-> urljoin(base_url, anchors[a].href)]))
             ELSE FindLinks(anchors, base_url, a, k + 1, links)

find_relevant_links(home_html, base_url) == FindLinks(home_html.anchors, base_url, 1, 1, <<>>)

\* ", ".join(list)
RECURSIVE Join(_, _)
Join(list, sep) ==
    IF Len(list) = 0 THEN ""
    ELSE IF Len(list) = 1 THEN list[1]
    ELSE list[1] \o sep \o Join(Tail(list), sep)

\* str.capitalize() of the keywords
Capitalize(kw) ==
    CASE kw = "about" -> "About"
      [] kw = "products" -> "Products"
      [] kw = "contact" -> "Contact"
      [] kw = "contact us" -> "Contact us"
      [] kw = "services" -> "Services"
      [] kw = "portfolio" -> "Portfolio"
      [] kw = "get in touch" -> "Get in touch"

\* the loop that builds combined_content
RECURSIVE Combine(_)
Combine(sections) ==
    IF Len(sections) = 0 THEN ""
    ELSE "\n--- " \o sections[1].key \o " ---\n" \o sections[1].value \o "\n"
         \o Combine(Tail(sections))

(***************************************************************************)
(* scrape_manufacturer_website.  net[c] is what the network does during    *)
(* the c-th get_website_content call of the scrape (c = 1: the homepage).  *)
(* `acc` holds extracted_content, all_emails, all_phones and the URLs      *)
(* fetched so far.                                                         *)
(***************************************************************************)
RECURSIVE ScrapeLinksStopAtFailure(_, _, _, _)
ScrapeLinksStopAtFailure(relevant_links, net, n, acc) ==
    IF n > Len(relevant_links) THEN acc
    ELSE LET item == relevant_links[n]
             page_html == get_website_content(net[n + 1], DefaultRetries).text
             contacts == extract_contact_details(page_html)
             fetched == Append(acc.fetched, item.link)
         IN  IF page_html.markup # ""
             THEN ScrapeLinksStopAtFailure(relevant_links, net, n + 1,
                    [extracted_content |->
                        Append(acc.extracted_content,
                               [key |-> Capitalize(item.key),
                                value |-> extract_main_content(page_html)]),
                     all_emails |-> acc.all_emails \cup contacts.emails,
                     all_phones |-> acc.all_phones \cup contacts.phones,
                     fetched |-> fetched])
             ELSE [acc EXCEPT !.fetched = fetched]

RECURSIVE ScrapeLinks(_, _, _, _)
ScrapeLinks(relevant_links, net, n, acc) ==
    IF n > Len(relevant_links) THEN acc
    ELSE LET item == relevant_links[n]
             page_html == get_website_content(net[n + 1], DefaultRetries).text
             contacts == extract_contact_details(page_html)
             fetched == Append(acc.fetched, item.link)
         IN  IF page_html.markup # ""
             THEN ScrapeLinks(relevant_links, net, n + 1,
                    [extracted_content |->
                        Append(acc.extracted_content,
                               [key |-> Capitalize(item.key),
                                value |-> extract_main_content(page_html)]),
                     all_emails |-> acc.all_emails \cup contacts.emails,
                     all_phones |-> acc.all_phones \cup contacts.phones,
                     fetched |-> fetched])
             ELSE ScrapeLinks(relevant_links, net, n + 1, [acc EXCEPT !.fetched = fetched])

ScrapePagesNoEarlyReturn(website_url, net, homepage_emails) ==
    LET homepage_html == get_website_content(net[1], DefaultRetries).text
        contacts == extract_contact_details(homepage_html)
        relevant_links == find_relevant_links(homepage_html, website_url)
    IN  ScrapeLinks(relevant_links, net, 1,
            [extracted_content |->
                <<[key |-> "Homepage", value |-> extract_main_content(homepage_html)]>>,
             all_emails |-> contacts.emails,
             all_phones |-> contacts.phones,
             fetched |-> <<website_url>>])

\* the body of scrape_manufacturer_website once list(emails) of the homepage
\* came out as homepage_emails
ScrapePages(website_url, net, homepage_emails) ==
    LET homepage_html == get_website_content(net[1], DefaultRetries).text IN
    IF homepage_html.markup = ""
    THEN [extracted_content |-> <<>>, all_emails |-> {}, all_phones |-> {},
          fetched |-> <<website_url>>]
    ELSE LET contacts == extract_contact_details(homepage_html)
             relevant_links == find_relevant_links(homepage_html, website_url)
             home == <<[key |-> "Homepage", value |-> extract_main_content(homepage_html)]>>
             details ==
                 IF Len(homepage_emails) > 0
                 THEN <<[key |-> "Contact Details",
                         value |-> "Emails: " \o Join(homepage_emails, ", ")]>>
                 ELSE <<>>
         IN  ScrapeLinks(relevant_links, net, 1,
                 [extracted_content |-> home \o details,
                  all_emails |-> contacts.emails,
                  all_phones |-> contacts.phones,
                  fetched |-> <<website_url>>])

\* the homepage as the scrape sees it
HomepageOf(net) == get_website_content(net[1], DefaultRetries).text

\* every value scrape_manufacturer_website can return for this network:
\* (combined_content, list(all_emails), list(all_phones)), with the URLs it
\* fetched, in order
scrape_manufacturer_website(website_url, net) ==
    UNION {
      LET s == ScrapePages(website_url, net, homepage_emails) IN
      {[extracted_content |-> Combine(s.extracted_content),
        all_emails |-> all_emails, all_phones |-> all_phones,
        fetched |-> s.fetched] :
          all_emails \in ListOfSet(s.all_emails), all_phones \in ListOfSet(s.all_phones)}
      : homepage_emails \in ListOfSet(extract_contact_details(HomepageOf(net)).emails)}

(***************************************************************************)
(* The sites the scraper's own specification meets.                        *)
(***************************************************************************)
Anchor(text, href) == [text |-> text, href |-> href]

AnchorPool ==
    {Anchor("Contact Us", "/contact"), Anchor(" About Acme ", "about.html"),
     Anchor("About", "/"), Anchor("Home", "index.html")}

HomeContacts ==
    {[emails |-> {}, phones |-> {}],
     [emails |-> {"info@acme.com"}, phones |-> {"+39 02 1234 5678"}]}

HomeDocs ==
    {Html("<html>home</html>", "Acme makes furniture", c.emails, c.phones, anchors) :
        c \in HomeContacts, anchors \in SeqsUpTo(AnchorPool, MaxAnchors)}

ContactPage == Html("<html>contact</html>", "Write to us", {"sales@acme.com"}, {}, <<>>)

\* three GETs that succeed at once, succeed on the third, or all fail
Direct(html) == <<Response(200, html), RequestException, RequestException>>
Retried(html) == <<RequestException, Response(503, ErrorPage), Response(200, html)>>
Down == <<Response(500, ErrorPage), RequestException, Response(404, ErrorPage)>>

HomeNets == {Direct(h) : h \in HomeDocs} \cup {Direct(EmptyHtml), Down}
PageNets == {Direct(ContactPage), Retried(PlainPage), Down}

SiteUrls == {"https://acme.com/", "https://acme.com/en/home.html"}

\* the networks of one scrape: the homepage's, then one per keyword link
SiteNets(website_url, homeNets, pageNets) ==
    UNION {
      LET links == find_relevant_links(get_website_content(h, DefaultRetries).text, website_url)
      IN  {<<h>> \o rest : rest \in [1..Len(links) -> pageNets]}
      : h \in homeNets}

(***************************************************************************)
(* The search provider.  One exchange answers a query with a status and a  *)
(* JSON object, or fails; google_search turns every failure into {}.       *)
(***************************************************************************)
Hit(title, link) == [title |-> title, link |-> link]

\* the JSON object {} and a JSON object with an 'organic' list
EmptyDict == [has_organic |-> FALSE, organic |-> <<>>]
Serp(organic) == [has_organic |-> TRUE, organic |-> organic]

SerperAnswer(status, json) == [kind |-> "response", status_code |-> status, json |-> json]
SerperException == [kind |-> "Exception"]

google_search(exchange) ==
    IF exchange.kind = "response"
    THEN IF exchange.status_code # 200 THEN EmptyDict ELSE exchange.json
    ELSE EmptyDict

\* every way the provider can answer with one of these JSON objects, or fail
Exchanges(jsons) ==
    {SerperAnswer(200, json) : json \in jsons}
        \cup {SerperAnswer(403, EmptyDict), SerperException}

blacklist_keywords == <<"top", "best", "guide", "list", "review">>

is_aggregator_title(title) ==
    LET lowered == Lower(title)
    IN  \E n \in 1..Len(blacklist_keywords) : Contains(lowered, Lower(blacklist_keywords[n]))

excluded_domains ==
    <<"alibaba.com", "thomasnet.com", "yellowpages", "quora.com", "made-in-china.com",
      "reddit.com", "facebook.com", "globalsources.com", "homedepot.com">>

\* the inline domain test of general_search on a hit's link
IsExcludedLinkNever(website_url) ==
    FALSE

IsExcludedLink(website_url) ==
    /\ Truthy(website_url)
    /\ \E n \in 1..Len(excluded_domains) : Contains(website_url, excluded_domains[n])

(***************************************************************************)
(* extract_manufacturer_info: the two discovery queries of the resolver.   *)
(***************************************************************************)
\* result.get('link', '') of the LinkedIn loop
LinkOrEmpty(result) == IF result.link = None THEN "" ELSE result.link

RECURSIVE LinkedinLoop(_, _)
LinkedinLoop(organic, n) ==
    IF n > Len(organic) THEN None
    ELSE IF Contains(LinkOrEmpty(organic[n]), "linkedin.com") THEN organic[n].link
    ELSE LinkedinLoop(organic, n + 1)

RECURSIVE WebsiteLoop(_, _, _)
WebsiteLoop(organic, n, website_url) ==
    IF n > Len(organic) THEN website_url
    ELSE IF is_aggregator_title(organic[n].title) THEN WebsiteLoop(organic, n + 1, website_url)
    ELSE IF Truthy(organic[n].link) THEN organic[n].link
    ELSE WebsiteLoop(organic, n + 1, organic[n].link)

extract_manufacturer_info(linkedin_exchange, website_exchange) ==
    LET linkedin_results == google_search(linkedin_exchange)
        website_results == google_search(website_exchange)
    IN  [linkedin_url |->
            IF linkedin_results.has_organic
            THEN LinkedinLoop(linkedin_results.organic, 1) ELSE None,
         website_url |->
            IF website_results.has_organic
            THEN WebsiteLoop(website_results.organic, 1, None) ELSE None]

(***************************************************************************)
(* extract_linkedin_details and the summarizer.                            *)
(***************************************************************************)
\* a profile page: what the two regular expressions find first in its text
ProfileHtml(phone, location) ==
    [markup |-> "<html>profile</html>", text |-> "profile", emails |-> {}, phones |-> {},
     anchors |-> <<>>, phone_match |-> phone, location_match |-> location]

extract_linkedin_details(net) ==
    LET html == get_website_content(net, DefaultRetries).text
    IN  IF html.markup = "" THEN [phone |-> None, location |-> None]
        ELSE [phone |-> html.phone_match, location |-> html.location_match]

NoKeyText ==
    "API key not available for summary generation. Please configure your OPENAI_API_KEY."
ApiErrorText ==
    "Could not generate summary due to API error. Please check your API key or try again later."

\* `completion` is what openai.ChatCompletion.create does when it is called
generate_manufacturer_summary_from_content(api_key, completion) ==
    IF ~Truthy(api_key) THEN [summary |-> NoKeyText, called |-> FALSE]
    ELSE IF completion.kind = "completion"
         THEN [summary |-> Strip(completion.content), called |-> TRUE]
         ELSE [summary |-> ApiErrorText, called |-> TRUE]

Completion(content) == [kind |-> "completion", content |-> content]
CompletionError == [kind |-> "Exception"]

(***************************************************************************)
(* specific_company_search.  `info` is what extract_manufacturer_info      *)
(* returns for the name, `scrape` what scrape_manufacturer_website returns *)
(* for the website, `profile_net` what the profile page's GETs do and      *)
(* `completion` what the summarization provider does.  The result records  *)
(* the returned value, the error shown, the calls made in order and the    *)
(* URLs the scrape fetched.                                                *)
(***************************************************************************)
\* a value that is None or a dict
NoDict == [is_none |-> TRUE]
Dict(dict) == [is_none |-> FALSE, dict |-> dict]

specific_company_searchNoContentCheck(company_name, info, scrape, profile_net, api_key, completion) ==
    IF ~Truthy(company_name)
    THEN [returned |-> NoDict, error |-> "Please enter a company name.",
          calls |-> <<>>, fetched |-> <<>>]
    ELSE
    LET linkedin_url == info.linkedin_url
        website_url == info.website_url
    IN
    IF ~Truthy(website_url)
    THEN [returned |-> NoDict,
          error |-> "Could not find a valid website for the specified company.",
          calls |-> <<"extract_manufacturer_info">>, fetched |-> <<>>]
    ELSE
    LET extracted_content == scrape.extracted_content
        all_emails == scrape.all_emails
        all_phones == scrape.all_phones
        profile == IF Truthy(linkedin_url) THEN extract_linkedin_details(profile_net)
                   ELSE [phone |-> None, location |-> None]
        made == generate_manufacturer_summary_from_content(api_key, completion)
        primary_email == IF Len(all_emails) > 0 THEN all_emails[1] ELSE None
        primary_phone == IF Len(all_phones) > 0 THEN all_phones[1] ELSE profile.phone
    IN  [returned |->
            Dict([Company |-> company_name, LinkedIn |-> linkedin_url,
                    Website |-> website_url, Phone |-> primary_phone,
                    Email |-> primary_email, Location |-> profile.location,
                    All_Emails |-> all_emails, All_Phones |-> all_phones,
                    Summary |-> made.summary]),
         error |-> None,
         calls |-> <<"extract_manufacturer_info", "scrape_manufacturer_website">>
                     \o (IF Truthy(linkedin_url) THEN <<"extract_linkedin_details">> ELSE <<>>)
                     \o <<"generate_manufacturer_summary_from_content">>,
         fetched |-> scrape.fetched]

specific_company_search(company_name, info, scrape, profile_net, api_key, completion) ==
    IF ~Truthy(company_name)
    THEN [returned |-> NoDict, error |-> "Please enter a company name.",
          calls |-> <<>>, fetched |-> <<>>]
    ELSE
    LET linkedin_url == info.linkedin_url
        website_url == info.website_url
    IN
    IF ~Truthy(website_url)
    THEN [returned |-> NoDict,
          error |-> "Could not find a valid website for the specified company.",
          calls |-> <<"extract_manufacturer_info">>, fetched |-> <<>>]
    ELSE
    LET extracted_content == scrape.extracted_content
        all_emails == scrape.all_emails
        all_phones == scrape.all_phones
    IN
    IF extracted_content = ""
    THEN [returned |-> NoDict, error |-> "Failed to extract content from the website.",
          calls |-> <<"extract_manufacturer_info", "scrape_manufacturer_website">>,
          fetched |-> scrape.fetched]
    ELSE
    LET profile == IF Truthy(linkedin_url) THEN extract_linkedin_details(profile_net)
                   ELSE [phone |-> None, location |-> None]
        made == generate_manufacturer_summary_from_content(api_key, completion)
        primary_email == IF Len(all_emails) > 0 THEN all_emails[1] ELSE None
        primary_phone == IF Len(all_phones) > 0 THEN all_phones[1] ELSE profile.phone
    IN  [returned |->
            Dict([Company |-> company_name, LinkedIn |-> linkedin_url,
                    Website |-> website_url, Phone |-> primary_phone,
                    Email |-> primary_email, Location |-> profile.location,
                    All_Emails |-> all_emails, All_Phones |-> all_phones,
                    Summary |-> made.summary]),
         error |-> None,
         calls |-> <<"extract_manufacturer_info", "scrape_manufacturer_website">>
                     \o (IF Truthy(linkedin_url) THEN <<"extract_linkedin_details">> ELSE <<>>)
                     \o <<"generate_manufacturer_summary_from_content">>,
         fetched |-> scrape.fetched]

(***************************************************************************)
(* What the providers and the sites answer during a general_search run.    *)
(***************************************************************************)
AcmeSite == "https://acme.com/"
AlibabaShop == "https://www.alibaba.com/acme"
AcmeLinkedin == "https://www.linkedin.com/company/acme"

HitPool ==
    {Hit("Acme Woodworks", "https://acme.com/"),
     Hit("Acme Woodworks - Home", "https://acme.com/home"),
     Hit("Acme Woodworks", AlibabaShop),
     Hit("Acme Woodworks - Home", "https://www.Alibaba.com/acme"),
     Hit("Top 10 Wood Makers", "https://woodblog.example/top10"),
     Hit("", None)}

\* answers to a discovery query: pages of at most MaxHits hits.  The loop
\* reads a page front to back, one hit per iteration, and nothing else of it
\* but its length: a page is kept as its length, and the hit at each rank
\* is drawn from HitPool when the loop reaches it.
PageOf(length) == [n \in 1..length |-> "hit"]
SearchExchanges == Exchanges({EmptyDict} \cup {Serp(PageOf(n)) : n \in 0..MaxHits})

\* answers to "<name> LinkedIn"
LinkedinExchanges ==
    Exchanges({Serp(<<Hit("Acme Woodworks", AcmeSite), Hit("Acme | LinkedIn", AcmeLinkedin)>>)})

\* answers to "<name> official website"
WebsiteExchanges ==
    Exchanges({Serp(<<Hit("Best Wood Makers", "https://woodblog.example/best"),
                      Hit("Acme Woodworks", AcmeSite)>>),
               Serp(<<Hit("Acme Woodworks on Alibaba", AlibabaShop)>>),
               Serp(<<Hit("Acme Woodworks", None)>>)})

\* what extract_manufacturer_info returns, over every pair of answers
Resolutions ==
    {extract_manufacturer_info(linkedin_exchange, website_exchange) :
        linkedin_exchange \in LinkedinExchanges, website_exchange \in WebsiteExchanges}

AcmeHome ==
    Html("<html>home</html>", "Acme makes furniture", {"info@acme.com"},
         {"+39 02 1234 5678"}, <<Anchor("Contact Us", "/contact")>>)

RunHomeNets == {Direct(AcmeHome), Down}
RunPageNets == {Direct(ContactPage)}
ProfileNets == {Direct(ProfileHtml("+39 02 8765 4321", "Milan")), Down}
\* the provider answers with a text, with a text of white space only, or
\* the call raises
Completions == {Completion(" Acme is a furniture maker. "), Completion("  "), CompletionError}

ApiKeys == {None, "sk-test"}
default_search_terms ==
    <<"Luxury wood furniture manufacturer", "Premium wood manufacturing",
      "Custom wood furniture manufacturer">>
TermLists == {SubSeq(default_search_terms, 1, n) : n \in 1..MaxTerms}
\* the titles that can name a candidate
\* what the user types into the company-name field
CompanyNames == {"", "Acme Woodworks", "Birch & Co"}

CompanyTitles == {h.title : h \in {c \in HitPool : c.title # "" /\ ~is_aggregator_title(c.title)}}

VARIABLES
    fetchCall,      \* the last get_website_content call: its inputs and result
    scrapeCall,     \* the last scrape_manufacturer_website call, likewise
    companyCall,    \* the last specific_company_search call, likewise
    OPENAI_API_KEY, \* read once at start-up
    pc,             \* where general_search stands
    args,           \* the arguments of the running general_search call
    i,              \* index of the search term in hand (1-based)
    page_length,    \* len(search_results['organic']) of the term in hand
    j,              \* index of the hit in hand (1-based)
    manufacturers,  \* the dict of candidates, as its items in insertion order
    k,              \* index of the candidate being processed (1-based)
    results,        \* the list of records built so far
    examined,       \* company names of the hits this run has got past the title test
    lastHit,        \* the hit examined last: its verdict and the I/O spent on it
    lastCandidate,  \* the candidate processed last: its scrape and its fate
    general_search_results, \* st.session_state.general_search_results
    total_results_loaded,   \* st.session_state.total_results_loaded
    search_params,          \* st.session_state.search_params
    handler,        \* the button handler of main whose general_search call is running
    clicks          \* how many button handlers have been started

runVars == <<pc, args, i, page_length, j, manufacturers, k, results, examined,
             lastHit, lastCandidate>>
sessionVars == <<general_search_results, total_results_loaded, search_params, handler, clicks>>
vars == <<fetchCall, scrapeCall, companyCall, OPENAI_API_KEY, runVars, sessionVars>>

NoCall == [made |-> FALSE]
NoHit == [examined |-> FALSE]
NoCandidate == [processed |-> FALSE]
NoArgs == [called |-> FALSE]

Init ==
    /\ fetchCall = NoCall
    /\ scrapeCall = NoCall
    /\ companyCall = NoCall
    /\ OPENAI_API_KEY \in ApiKeys
    /\ pc = "idle"
    /\ args = NoArgs
    /\ i = 0
    /\ page_length = 0
    /\ j = 0
    /\ manufacturers = <<>>
    /\ k = 0
    /\ results = <<>>
    /\ examined = {}
    /\ lastHit = NoHit
    /\ lastCandidate = NoCandidate
    /\ general_search_results = <<>>
    /\ total_results_loaded = 0
    /\ search_params = NoDict
    /\ handler = "none"
    /\ clicks = 0

\* one call of get_website_content, with any retry count and any network
FetchCall ==
    /\ ~fetchCall.made
    /\ \E retries \in 0..MaxRetries :
         \E net \in [1..retries -> GetOutcomes] :
           fetchCall' = [made |-> TRUE, retries |-> retries, net |-> net,
                         result |-> get_website_content(net, retries)]
    /\ UNCHANGED <<scrapeCall, companyCall, OPENAI_API_KEY, runVars, sessionVars>>

NextFetch == FetchCall

SpecFetch == Init /\ [][NextFetch]_vars

\* one call of scrape_manufacturer_website
ScrapeCall ==
    /\ ~scrapeCall.made
    /\ \E website_url \in SiteUrls :
         \E net \in SiteNets(website_url, HomeNets, PageNets) :
           \E result \in scrape_manufacturer_website(website_url, net) :
             scrapeCall' = [made |-> TRUE, website_url |-> website_url, net |-> net,
                            result |-> result]
    /\ UNCHANGED <<fetchCall, companyCall, OPENAI_API_KEY, runVars, sessionVars>>

NextScrape == ScrapeCall

SpecScrape == Init /\ [][NextScrape]_vars

\* one call of specific_company_search
CompanySearchCall ==
    /\ ~companyCall.made
    /\ \E company_name \in CompanyNames, info \in Resolutions,
          profile_net \in ProfileNets, completion \in Completions :
         LET website_url == IF Truthy(info.website_url) THEN info.website_url ELSE AcmeSite IN
         \E net \in SiteNets(website_url, RunHomeNets, PageNets) :
           \E scrape \in scrape_manufacturer_website(website_url, net) :
             companyCall' =
                 [made |-> TRUE, company_name |-> company_name, info |-> info,
                  scrape |-> IF Truthy(company_name) /\ Truthy(info.website_url)
                             THEN scrape ELSE NoCall,
                  result |-> specific_company_search(company_name, info, scrape, profile_net,
                                                     OPENAI_API_KEY, completion)]
    /\ UNCHANGED <<fetchCall, scrapeCall, OPENAI_API_KEY, runVars, sessionVars>>

NextCompany == CompanySearchCall

SpecCompany == Init /\ [][NextCompany]_vars

(***************************************************************************)
(* general_search, one step per provider query, per hit and per candidate. *)
(***************************************************************************)
ManufacturerNames == {manufacturers[n].Company : n \in 1..Len(manufacturers)}

\* manufacturers[company_name] = value: a new key goes last, a key already
\* there keeps its place
DictPut(dict, value) ==
    IF \E n \in 1..Len(dict) : dict[n].Company = value.Company
    THEN [n \in 1..Len(dict) |->
            IF dict[n].Company = value.Company THEN value ELSE dict[n]]
    ELSE Append(dict, value)

IsNewCandidateNoRunCheck(company_name) ==
    /\ company_name # ""
    /\ company_name \notin args.existing_companies

IsNewCandidateNoPriorCheck(company_name) ==
    /\ company_name # ""
    /\ company_name \notin ManufacturerNames

\* the test of line 315
IsNewCandidate(company_name) ==
    /\ company_name # ""
    /\ company_name \notin ManufacturerNames
    /\ company_name \notin args.existing_companies

\* general_search is entered (lines 281-289) with these arguments
EnterGeneralSearch(search_terms, offset, max_results, existing_companies) ==
    /\ args' = [called |-> TRUE, search_terms |-> search_terms,
                max_results |-> max_results, offset |-> offset,
                existing_companies |-> existing_companies]
    /\ pc' = "term"
    /\ i' = 1
    /\ page_length' = 0
    /\ j' = 0
    /\ manufacturers' = <<>>
    /\ k' = 0
    /\ results' = <<>>
    /\ examined' = {}
    /\ lastHit' = NoHit
    /\ lastCandidate' = NoCandidate

\* one call of general_search, with any arguments
CallGeneralSearch ==
    /\ pc = "idle"
    /\ ~args.called
    /\ \E search_terms \in TermLists, max_results \in 1..MaxResultsCap,
          existing_companies \in SUBSET CompanyTitles :
         EnterGeneralSearch(search_terms, 0, max_results, existing_companies)
    /\ UNCHANGED <<fetchCall, scrapeCall, companyCall, OPENAI_API_KEY, sessionVars>>

\* where the term loop stands once term `done` is finished
AfterTerm(done) == IF done >= Len(args.search_terms) THEN "collect" ELSE "term"

\* the query of one search term (lines 291-298), and the page's end when
\* its 'organic' list is empty (line 334)
QueryTerm ==
    /\ pc = "term"
    /\ \E exchange \in SearchExchanges :
         LET answer == google_search(exchange) IN
         IF ~answer.has_organic
         THEN /\ pc' = AfterTerm(i)
              /\ i' = i + 1
              /\ UNCHANGED <<page_length, j>>
         ELSE IF Len(answer.organic) = 0
         THEN /\ pc' = IF Len(manufacturers) >= args.max_results THEN "collect"
                       ELSE AfterTerm(i)
              /\ i' = i + 1
              /\ UNCHANGED <<page_length, j>>
         ELSE /\ pc' = "hit"
              /\ page_length' = Len(answer.organic)
              /\ j' = 1
              /\ i' = i
    /\ UNCHANGED <<args, manufacturers, k, results, examined, lastHit, lastCandidate>>
    /\ UNCHANGED <<fetchCall, scrapeCall, companyCall, OPENAI_API_KEY, sessionVars>>

\* `continue` in the hit loop: the cap test of line 331 is skipped; after
\* the page's last hit the test of line 334 decides
ContinueHits ==
    IF j < page_length
    THEN pc' = "hit" /\ j' = j + 1 /\ i' = i
    ELSE /\ pc' = IF Len(manufacturers) >= args.max_results THEN "collect"
                  ELSE AfterTerm(i)
         /\ i' = i + 1
         /\ j' = j

\* the end of a hit's iteration (lines 328-335) with `now` candidates
EndOfHitOffByOne(now) ==
    IF now > args.max_results
    THEN pc' = "collect" /\ i' = i /\ j' = j
    ELSE IF j < page_length
    THEN pc' = "hit" /\ j' = j + 1 /\ i' = i
    ELSE pc' = AfterTerm(i) /\ i' = i + 1 /\ j' = j

EndOfHit(now) ==
    IF now >= args.max_results
    THEN pc' = "collect" /\ i' = i /\ j' = j
    ELSE IF j < page_length
    THEN pc' = "hit" /\ j' = j + 1 /\ i' = i
    ELSE pc' = AfterTerm(i) /\ i' = i + 1 /\ j' = j

\* the record of one examined hit: `seen` and `held` say whether its title was
\* the name of an earlier hit of the run, and of a candidate already held
Verdict(result, verdict, io) ==
    [examined |-> TRUE, term |-> i, rank |-> j, title |-> result.title,
     link |-> result.link, verdict |-> verdict, io |-> io,
     seen |-> result.title \in examined,
     held |-> result.title \in ManufacturerNames]

\* one hit of the page (lines 300-332), the hit being one of `hits` and the
\* resolver's answer one of `resolutions`
ExamineHitFrom(hits, resolutions) ==
    /\ pc = "hit"
    /\ \E result \in hits :
       LET company_title == result.title
           company_name == company_title
           website_url == result.link
       IN
       /\ examined' = IF is_aggregator_title(company_title) \/ company_name = ""
                      THEN examined ELSE examined \cup {company_name}
       /\ IF is_aggregator_title(company_title)
          THEN /\ lastHit' = Verdict(result, "aggregator", <<>>)
               /\ ContinueHits
               /\ UNCHANGED manufacturers
          ELSE IF IsExcludedLink(website_url)
          THEN /\ lastHit' = Verdict(result, "excluded", <<>>)
               /\ ContinueHits
               /\ UNCHANGED manufacturers
          ELSE IF IsNewCandidate(company_name)
          THEN \E info \in resolutions :
                 LET io == <<"linkedin query", "website query">>
                 IN  IF ~Truthy(info.website_url)
                     THEN /\ lastHit' = Verdict(result, "unresolved", io)
                          /\ ContinueHits
                          /\ UNCHANGED manufacturers
                     ELSE /\ lastHit' = Verdict(result, "candidate", io)
                          /\ manufacturers' =
                               DictPut(manufacturers,
                                       [Company |-> company_name,
                                        Website |-> info.website_url,
                                        LinkedIn |-> info.linkedin_url])
                          /\ EndOfHit(Len(manufacturers'))
          ELSE /\ lastHit' = Verdict(result, "skipped", <<>>)
               /\ EndOfHit(Len(manufacturers))
               /\ UNCHANGED manufacturers
    /\ UNCHANGED <<args, page_length, k, results, lastCandidate>>
    /\ UNCHANGED <<fetchCall, scrapeCall, companyCall, OPENAI_API_KEY, sessionVars>>

ExamineHit == ExamineHitFrom(HitPool, Resolutions)

\* after the loops (lines 337-345): nothing found returns [] at once.  The
\* loop variables stay as the loops left them.
Collect ==
    /\ pc = "collect"
    /\ IF Len(manufacturers) = 0
       THEN pc' = "returned" /\ k' = k
       ELSE pc' = "process" /\ k' = 1
    /\ results' = <<>>
    /\ examined' = {}
    /\ lastHit' = NoHit
    /\ UNCHANGED <<args, i, page_length, j, manufacturers, lastCandidate>>
    /\ UNCHANGED <<fetchCall, scrapeCall, companyCall, OPENAI_API_KEY, sessionVars>>

\* `provider` is what the summarization provider did when it was called
Fate(details, net, scrape, emitted, io, provider) ==
    [processed |-> TRUE, index |-> k, Company |-> details.Company,
     Website |-> details.Website, home_net |-> net[1],
     homepage |-> HomepageOf(net), gets |-> scrape.fetched,
     extracted_content |-> scrape.extracted_content,
     all_emails |-> scrape.all_emails, all_phones |-> scrape.all_phones,
     emitted |-> emitted, io |-> io, provider |-> provider]

\* one candidate (lines 346-382), the sites, the profile page and the
\* summarization provider answering as the four sets allow
ProcessCandidateWith(homeNets, pageNets, profileNets, completions) ==
    /\ pc = "process"
    /\ k <= Len(manufacturers)
    /\ LET details == manufacturers[k]
           company_name == details.Company
           website_url == details.Website
           linkedin_url == details.LinkedIn
       IN
       IF ~Truthy(website_url)
       THEN UNCHANGED <<results, lastCandidate>>
       ELSE
       \E net \in SiteNets(website_url, homeNets, pageNets) :
         \E scrape \in scrape_manufacturer_website(website_url, net) :
           IF scrape.extracted_content = ""
           THEN /\ lastCandidate' = Fate(details, net, scrape, FALSE, <<>>, NoCall)
                /\ UNCHANGED results
           ELSE
           \E completion \in completions,
              profile_net \in IF Truthy(linkedin_url) THEN profileNets ELSE {Down} :
             LET made == generate_manufacturer_summary_from_content(OPENAI_API_KEY, completion)
                 profile == IF Truthy(linkedin_url) THEN extract_linkedin_details(profile_net)
                            ELSE [phone |-> None, location |-> None]
                 all_emails == scrape.all_emails
                 all_phones == scrape.all_phones
                 primary_email == IF Len(all_emails) > 0 THEN all_emails[1] ELSE None
                 primary_phone == IF Len(all_phones) > 0 THEN all_phones[1] ELSE profile.phone
                 io == (IF made.called THEN <<"summary">> ELSE <<>>)
                          \o (IF Truthy(linkedin_url) THEN <<"profile">> ELSE <<>>)
             IN  /\ results' =
                      Append(results,
                             [Company |-> company_name, LinkedIn |-> linkedin_url,
                              Website |-> website_url, Phone |-> primary_phone,
                              Email |-> primary_email, Location |-> profile.location,
                              All_Emails |-> all_emails, All_Phones |-> all_phones,
                              Summary |-> made.summary])
                 /\ lastCandidate' = Fate(details, net, scrape, TRUE, io,
                                          IF made.called THEN completion ELSE NoCall)
    /\ k' = k + 1
    /\ UNCHANGED <<args, pc, i, page_length, j, manufacturers, examined, lastHit>>
    /\ UNCHANGED <<fetchCall, scrapeCall, companyCall, OPENAI_API_KEY, sessionVars>>

ProcessCandidate == ProcessCandidateWith(RunHomeNets, RunPageNets, ProfileNets, Completions)

\* the list is returned (lines 384-387)
Return ==
    /\ pc = "process"
    /\ k > Len(manufacturers)
    /\ pc' = "returned"
    /\ UNCHANGED <<args, i, page_length, j, manufacturers, k, results, examined,
                   lastHit, lastCandidate>>
    /\ UNCHANGED <<fetchCall, scrapeCall, companyCall, OPENAI_API_KEY, sessionVars>>

Next == CallGeneralSearch \/ QueryTerm \/ ExamineHit \/ Collect \/ ProcessCandidate \/ Return

Spec == Init /\ [][Next]_vars

(***************************************************************************)
(* main: the 'Search for Companies' and 'Load More Results' buttons of the *)
(* discovery tab.  A click starts the handler, general_search runs step by *)
(* step, and the handler's tail stores what the call returned.             *)
(***************************************************************************)
\* {r['Company']: r for r in list}, as its keys
NamesOf(list) == {list[n].Company : n \in 1..Len(list)}

\* values of the offset widget (line 473)
Offsets == {0, 10}

\* what the providers and the sites answer during a session
SessionHits ==
    {Hit("Acme Woodworks", "https://acme.com/"),
     Hit("Acme Woodworks - Home", "https://acme.com/home"),
     Hit("Top 10 Wood Makers", "https://woodblog.example/top10")}
SessionResolutions == {info \in Resolutions : info.website_url = AcmeSite /\ info.linkedin_url = None}
SessionHomeNets == {Direct(PlainPage), Down}
SessionCompletions == {CompletionError}

\* general_search has returned to its caller: its locals are gone
DropLocals ==
    /\ pc' = "idle"
    /\ args' = NoArgs
    /\ i' = 0
    /\ page_length' = 0
    /\ j' = 0
    /\ manufacturers' = <<>>
    /\ k' = 0
    /\ examined' = {}
    /\ lastHit' = NoHit
    /\ lastCandidate' = NoCandidate

\* 'Search for Companies' is clicked (lines 492-511)
SearchClick ==
    /\ pc = "idle"
    /\ clicks < MaxClicks
    /\ \E search_terms \in TermLists, max_results \in 1..MaxResultsCap, offset \in Offsets :
         LET reset == <<>> IN
         /\ general_search_results' = reset
         /\ total_results_loaded' = 0
         /\ search_params' = Dict([search_terms |-> search_terms])
         /\ EnterGeneralSearch(search_terms, offset, max_results, NamesOf(reset))
    /\ handler' = "search"
    /\ clicks' = clicks + 1
    /\ UNCHANGED <<fetchCall, scrapeCall, companyCall, OPENAI_API_KEY>>

\* the rest of the handler, once general_search has returned (lines 513-516)
SearchDone ==
    /\ pc = "returned"
    /\ handler = "search"
    /\ IF Len(results) > 0
       THEN /\ general_search_results' = results
            /\ total_results_loaded' = Len(results)
       ELSE UNCHANGED <<general_search_results, total_results_loaded>>
    /\ DropLocals
    /\ UNCHANGED <<results, search_params, handler, clicks>>
    /\ UNCHANGED <<fetchCall, scrapeCall, companyCall, OPENAI_API_KEY>>

\* 'Load More Results' is clicked: the button is shown when the list is not
\* empty and search parameters are stored (lines 519-520, 590-606)
LoadMoreClick ==
    /\ pc = "idle"
    /\ clicks < MaxClicks
    /\ Len(general_search_results) > 0
    /\ ~search_params.is_none
    /\ \E max_results \in 1..MaxResultsCap, offset \in Offsets :
         LET new_offset == offset + total_results_loaded
             existing_companies == NamesOf(general_search_results)
         IN  EnterGeneralSearch(search_params.dict.search_terms, new_offset, max_results,
                                existing_companies)
    /\ handler' = "load more"
    /\ clicks' = clicks + 1
    /\ UNCHANGED <<general_search_results, total_results_loaded, search_params>>
    /\ UNCHANGED <<fetchCall, scrapeCall, companyCall, OPENAI_API_KEY>>

LoadMoreDoneStaleCounter ==
    /\ pc = "returned"
    /\ handler = "load more"
    /\ IF Len(results) > 0
       THEN /\ general_search_results' = general_search_results \o results
            /\ total_results_loaded' = total_results_loaded
       ELSE UNCHANGED <<general_search_results, total_results_loaded>>
    /\ DropLocals
    /\ UNCHANGED <<results, search_params, handler, clicks>>
    /\ UNCHANGED <<fetchCall, scrapeCall, companyCall, OPENAI_API_KEY>>

\* the rest of the handler, once general_search has returned (lines 608-615)
LoadMoreDone ==
    /\ pc = "returned"
    /\ handler = "load more"
    /\ IF Len(results) > 0
       THEN /\ general_search_results' = general_search_results \o results
            /\ total_results_loaded' = Len(general_search_results')
       ELSE UNCHANGED <<general_search_results, total_results_loaded>>
    /\ DropLocals
    /\ UNCHANGED <<results, search_params, handler, clicks>>
    /\ UNCHANGED <<fetchCall, scrapeCall, companyCall, OPENAI_API_KEY>>

SessionExamineHit == ExamineHitFrom(SessionHits, SessionResolutions)

SessionProcessCandidate ==
    ProcessCandidateWith(SessionHomeNets, RunPageNets, ProfileNets, SessionCompletions)

NextSession ==
    \/ SearchClick \/ LoadMoreClick
    \/ QueryTerm \/ SessionExamineHit \/ Collect \/ SessionProcessCandidate \/ Return
    \/ SearchDone \/ LoadMoreDone

SpecSession == Init /\ [][NextSession]_vars

(***************************************************************************)
(* C1                                                                      *)
(***************************************************************************)
Failed(outcome) ==
    \/ outcome.kind = "RequestException"
    \/ outcome.kind = "response" /\ outcome.status_code # 200

Answers200(outcome) == outcome.kind = "response" /\ outcome.status_code = 200

\* C1: get_website_content sends its GETs one after another, at most
\* `retries` of them; it returns the body of the first GET answered with
\* status 200 and sends none after it; when every GET raises a
\* RequestException or is answered with another status, it returns "" and
\* no exception reaches the caller.
C1_FetchContract ==
    fetchCall.made =>
        LET r == fetchCall.result
            net == fetchCall.net
        IN  /\ r.gets <= fetchCall.retries
            /\ \A n \in 1..fetchCall.retries :
                 (Answers200(net[n]) /\ \A m \in 1..(n - 1) : Failed(net[m]))
                    => r.text = net[n].text /\ r.gets = n /\ ~r.raised
            /\ (\A n \in 1..fetchCall.retries : Failed(net[n]))
                    => r.text = EmptyHtml /\ ~r.raised /\ r.gets = fetchCall.retries

C1_Witness ==
    /\ fetchCall.made
    /\ fetchCall.retries = 3
    /\ fetchCall.net[1] = RequestException
    /\ fetchCall.net[2] = Response(200, PlainPage)
    /\ fetchCall.result.gets = 2
    /\ fetchCall.result.text = PlainPage

(***************************************************************************)
(* C2 - C9: one general_search run.                                        *)
(***************************************************************************)
ResultNames == {results[n].Company : n \in 1..Len(results)}

\* C2: the list general_search builds and returns never holds more than
\* max_results records (max_results >= 1), whatever the provider answers.
C2_AtMostMaxResults ==
    args.called => Len(results) <= args.max_results /\ Len(manufacturers) <= args.max_results

\* the run stopped on the cap with search terms left, and returned a full list
C2_Witness ==
    /\ pc = "returned"
    /\ Len(results) = args.max_results
    /\ i < Len(args.search_terms)

\* C3 as stated: names are non-empty and pairwise different, the record of
\* a name comes from the first hit carrying it, and a later hit with a name
\* met before in the run spends no resolver query.
C3_FirstHitWins ==
    /\ \A n \in 1..Len(results) : results[n].Company # ""
    /\ \A a, b \in 1..Len(results) : results[a].Company = results[b].Company => a = b
    /\ (lastHit.examined /\ lastHit.seen)
          => lastHit.io = <<>> /\ lastHit.verdict # "candidate"

\* C3, amended: names are non-empty and pairwise different; the record of a
\* name comes from the first hit carrying it that passed the title and
\* domain tests and for which the resolver found a website; once a name is
\* held as a candidate, a later hit with that name spends no resolver query
\* and leaves the candidate as it is.
C3_FirstCandidateWins ==
    /\ \A n \in 1..Len(results) : results[n].Company # ""
    /\ \A a, b \in 1..Len(results) : results[a].Company = results[b].Company => a = b
    /\ \A a, b \in 1..Len(manufacturers) :
          manufacturers[a].Company = manufacturers[b].Company => a = b
    /\ (lastHit.examined /\ lastHit.held)
          => lastHit.io = <<>> /\ lastHit.verdict \in {"aggregator", "excluded", "skipped"}

\* a hit repeats the name of a held candidate and is skipped
C3_Witness ==
    /\ lastHit.examined
    /\ lastHit.held
    /\ lastHit.verdict = "skipped"
    /\ lastHit.title \notin args.existing_companies

\* C4: general_search never emits a record whose name is a key of the
\* caller's existing_companies; so a run given every name of an earlier run
\* shares no name with it.
C4_NoExistingCompany ==
    args.called =>
        /\ ResultNames \cap args.existing_companies = {}
        /\ ManufacturerNames \cap args.existing_companies = {}
        /\ (lastHit.examined /\ lastHit.title \in args.existing_companies)
              => lastHit.io = <<>> /\ lastHit.verdict # "candidate"

\* a hit carrying a name of existing_companies was met and skipped while the
\* run holds another candidate
C4_Witness ==
    /\ lastHit.examined
    /\ lastHit.title \in args.existing_companies
    /\ lastHit.verdict = "skipped"
    /\ Len(manufacturers) > 0

ContainsExcludedDomain(url) ==
    \E n \in 1..Len(excluded_domains) : Contains(url, excluded_domains[n])

\* C5: every emitted record has a Website that is present, contains no
\* excluded domain, and whose scrape returned content.
C5_WebsiteNotBlacklisted ==
    /\ \A n \in 1..Len(results) :
          Truthy(results[n].Website) /\ ~ContainsExcludedDomain(results[n].Website)
    /\ lastCandidate.processed /\ lastCandidate.emitted
          => lastCandidate.extracted_content # ""

\* position of the first " - " or " | " of a title, or 0
RECURSIVE SuffixAt(_, _)
SuffixAt(title, n) ==
    IF n + 2 > Len(title) THEN 0
    ELSE IF SubSeq(title, n, n + 2) \in {" - ", " | "} THEN n
    ELSE SuffixAt(title, n + 1)

\* a title without its trailing " - X" or " | X"
StripSuffix(title) ==
    IF SuffixAt(title, 1) = 0 THEN title ELSE SubSeq(title, 1, SuffixAt(title, 1) - 1)

\* C6: the name of a candidate is the hit's title with a trailing " - X" or
\* " | X" stripped, and two titles that differ only in such a suffix are
\* one company.
C6_NameIsStrippedTitle ==
    /\ (lastHit.examined /\ lastHit.verdict = "candidate")
          => manufacturers[Len(manufacturers)].Company = StripSuffix(lastHit.title)
    /\ \A a, b \in 1..Len(manufacturers) :
          StripSuffix(manufacturers[a].Company) = StripSuffix(manufacturers[b].Company)
             => a = b

\* C7: a hit whose link contains a listed domain, in any letter case, is
\* rejected and never becomes a candidate.
C7_ListedDomainRejected ==
    (lastHit.examined /\ Truthy(lastHit.link) /\ ContainsExcludedDomain(Lower(lastHit.link)))
        => lastHit.verdict \in {"aggregator", "excluded"}

\* C8: when every GET of the homepage fails, the scrape returns "", [] and
\* [] after fetching the homepage only, no record is emitted for the
\* candidate, and the loop goes on to the next candidate; a run that found
\* candidates returns only after processing all of them.
C8_HomepageDown ==
    /\ (lastCandidate.processed /\ \A n \in 1..DefaultRetries : Failed(lastCandidate.home_net[n]))
          => /\ lastCandidate.extracted_content = ""
             /\ lastCandidate.all_emails = <<>>
             /\ lastCandidate.all_phones = <<>>
             /\ lastCandidate.gets = <<lastCandidate.Website>>
             /\ ~lastCandidate.emitted
             /\ lastCandidate.Company \notin ResultNames
             /\ k = lastCandidate.index + 1
    /\ (pc = "returned" /\ Len(manufacturers) > 0) => k = Len(manufacturers) + 1

\* the first of two candidates had its homepage down, and the loop stands
\* at the second
C8_Witness ==
    /\ pc = "process"
    /\ lastCandidate.processed
    /\ \A n \in 1..DefaultRetries : Failed(lastCandidate.home_net[n])
    /\ lastCandidate.index = 1
    /\ Len(manufacturers) = 2
    /\ k = 2

\* C9: when the homepage yields an e-mail address, the record's Email is a
\* homepage address, never one found only on a secondary page.
C9_PrimaryEmailFromHomepage ==
    (lastCandidate.processed /\ lastCandidate.emitted /\ lastCandidate.homepage.emails # {})
        => results[Len(results)].Email \in lastCandidate.homepage.emails

(***************************************************************************)
(* C10                                                                     *)
(***************************************************************************)
NoDuplicates(list) == \A a, b \in 1..Len(list) : list[a] = list[b] => a = b

\* C10: within one scrape_manufacturer_website call no URL is fetched more
\* than once: the homepage URL and the URLs fetched for the keyword links
\* are pairwise distinct.
C10_NoPageFetchedTwice ==
    scrapeCall.made => NoDuplicates(scrapeCall.result.fetched)

(***************************************************************************)
(* C11                                                                     *)
(***************************************************************************)
\* C11: the summarizer always returns a non-empty string: without an API
\* key the fixed 'API key not available' text and no provider call, on a
\* provider exception the fixed 'Could not generate summary' text; the
\* record is emitted all the same, and every emitted record has a
\* non-empty Summary.
C11_SummaryPopulated ==
    /\ \A n \in 1..Len(results) : results[n].Summary # ""
    /\ (lastCandidate.processed /\ lastCandidate.extracted_content # "")
          => /\ lastCandidate.emitted
             /\ results[Len(results)].Company = lastCandidate.Company
             /\ ~Truthy(OPENAI_API_KEY)
                   => /\ results[Len(results)].Summary = NoKeyText
                      /\ lastCandidate.provider = NoCall
             /\ (Truthy(OPENAI_API_KEY) /\ lastCandidate.provider = CompletionError)
                   => results[Len(results)].Summary = ApiErrorText

(***************************************************************************)
(* C13                                                                     *)
(***************************************************************************)
\* the hit is one the title test or the domain test rejects
Rejected(hit) ==
    \/ is_aggregator_title(hit.title)
    \/ Truthy(hit.link) /\ ContainsExcludedDomain(hit.link)

\* C13: a hit rejected by the aggregator-title test or by the excluded-domain
\* test costs no resolver query, no page fetch and no summarization call:
\* both tests come before any I/O spent on the hit, so a hit on which I/O
\* was spent passed both, and a rejected hit does not become a candidate
\* (its name is held after the hit only if it was held before), so that
\* nothing is fetched or summarized for it.
C13_RejectedHitCostsNothing ==
    lastHit.examined =>
        /\ Rejected(lastHit)
              => /\ lastHit.io = <<>>
                 /\ lastHit.verdict \in {"aggregator", "excluded"}
                 /\ lastHit.title \in ManufacturerNames <=> lastHit.held
        /\ lastHit.io # <<>> => ~Rejected(lastHit)

\* a hit on an excluded domain is rejected while the run holds a candidate
\* whose name is not the hit's
C13_Witness ==
    /\ lastHit.examined
    /\ lastHit.verdict = "excluded"
    /\ ~is_aggregator_title(lastHit.title)
    /\ Len(manufacturers) > 0
    /\ lastHit.title \notin ManufacturerNames
    /\ lastHit.title \notin args.existing_companies

(***************************************************************************)
(* C14                                                                     *)
(***************************************************************************)
\* the loops of lines 291-335 ran to their end: every term was queried and
\* every hit of every page was examined.  A `break` leaves i at the term in
\* hand and j at the hit in hand.
DiscoveryExhausted ==
    \/ i > Len(args.search_terms)
    \/ i = Len(args.search_terms) /\ j = page_length

\* C14: a general_search run that returns fewer than max_results records
\* has queried every search term and examined every hit of every page.
C14_FewerRecordsMeansExhausted ==
    (pc = "returned" /\ Len(results) < args.max_results) => DiscoveryExhausted

(***************************************************************************)
(* C15                                                                     *)
(***************************************************************************)
\* the members of a list
Members(list) == {list[n] : n \in 1..Len(list)}

\* the secondary page the n-th link of the call answered with ("" when
\* every GET of it failed)
SecondaryPage(n) == get_website_content(scrapeCall.net[n + 1], DefaultRetries).text

\* C15: once the homepage is fetched, every link of the classifier map is
\* fetched, in the map's iteration order, whether or not earlier secondary
\* fetches failed; the returned e-mail and phone lists hold, once each,
\* exactly the homepage's contacts and the contacts of every secondary page
\* that was fetched successfully.
C15_SecondaryFailuresIndependent ==
    (scrapeCall.made /\ HomepageOf(scrapeCall.net).markup # "")
       => LET home == HomepageOf(scrapeCall.net)
              links == find_relevant_links(home, scrapeCall.website_url)
              ok == {n \in 1..Len(links) : SecondaryPage(n).markup # ""}
              r == scrapeCall.result
          IN  /\ r.fetched = <<scrapeCall.website_url>> \o [n \in 1..Len(links) |-> links[n].link]
              /\ Members(r.all_emails) =
                    home.emails \cup UNION {SecondaryPage(n).emails : n \in ok}
              /\ Members(r.all_phones) =
                    home.phones \cup UNION {SecondaryPage(n).phones : n \in ok}
              /\ NoDuplicates(r.all_emails)
              /\ NoDuplicates(r.all_phones)

\* the first secondary fetch failed on every GET, a later one succeeded and
\* its address is in the returned list
C15_Witness ==
    /\ scrapeCall.made
    /\ HomepageOf(scrapeCall.net).markup # ""
    /\ Len(scrapeCall.net) >= 3
    /\ scrapeCall.net[2] = Down
    /\ \E n \in 2..(Len(scrapeCall.net) - 1) :
          /\ SecondaryPage(n) = ContactPage
          /\ ContactPage.emails \subseteq Members(scrapeCall.result.all_emails)
          /\ ~(ContactPage.emails \subseteq HomepageOf(scrapeCall.net).emails)

(***************************************************************************)
(* C12                                                                     *)
(***************************************************************************)
\* a website resolved for the name of the call
WebsiteResolved ==
    Truthy(companyCall.company_name) /\ Truthy(companyCall.info.website_url)

\* C12: specific_company_search returns None and reports an error whenever
\* no website resolves or the scrape returns empty content; in the first
\* case no page of a site is fetched, in both cases the summarizer is not
\* called; in every other case it returns one record whose Company is the
\* given name, and reports no error.
C12_CompanySearchOutcome ==
    companyCall.made =>
        LET r == companyCall.result
            empty == companyCall.scrape.extracted_content = ""
        IN  /\ ~WebsiteResolved
                  => /\ r.returned = NoDict
                     /\ r.error # None
                     /\ r.fetched = <<>>
                     /\ "scrape_manufacturer_website" \notin Members(r.calls)
                     /\ "generate_manufacturer_summary_from_content" \notin Members(r.calls)
            /\ (WebsiteResolved /\ empty)
                  => /\ r.returned = NoDict
                     /\ r.error # None
                     /\ "generate_manufacturer_summary_from_content" \notin Members(r.calls)
            /\ (WebsiteResolved /\ ~empty)
                  => /\ ~r.returned.is_none
                     /\ r.returned.dict.Company = companyCall.company_name
                     /\ r.error = None

\* a website resolved, its homepage failed on every GET, and the call
\* returned None after the scrape
C12_Witness ==
    /\ companyCall.made
    /\ WebsiteResolved
    /\ companyCall.scrape.extracted_content = ""
    /\ companyCall.result.returned = NoDict
    /\ companyCall.result.fetched = <<companyCall.info.website_url>>

(***************************************************************************)
(* C16                                                                     *)
(***************************************************************************)
\* C16: after any sequence of 'Search for Companies' and 'Load More
\* Results' clicks, total_results_loaded is the length of
\* general_search_results, no two records of the list have the same name,
\* and a Load More whose general_search call returns nothing leaves list
\* and counter as they were (no step of such a handler changes them).
C16_SessionCounterAndNames ==
    /\ [](total_results_loaded = Len(general_search_results))
    /\ [](\A a, b \in 1..Len(general_search_results) :
            general_search_results[a].Company = general_search_results[b].Company => a = b)
    /\ [][(handler' = "load more" /\ ~(pc = "returned" /\ Len(results) > 0))
            => UNCHANGED <<general_search_results, total_results_loaded>>]_vars

\* a Load More has added one record to a list of one
C16_Witness ==
    /\ handler = "load more"
    /\ pc = "idle"
    /\ Len(results) = 1
    /\ Len(general_search_results) = 2
    /\ total_results_loaded = 2

\* a Load More whose run met the listed name again has found nothing
C16_WitnessNothingFound ==
    /\ handler = "load more"
    /\ pc = "idle"
    /\ Len(results) = 0
    /\ Len(general_search_results) = 1
====
